---- MODULE Spec2Model ----
(***************************************************************************)
(* The loan calculator of src/src/components/LoanCalculator.tsx: three     *)
(* text inputs held as React state, an effect that re-runs calculateLoan   *)
(* whenever one of them changes, and the two outputs calculateLoan stores  *)
(* (paymentSchedule and loanSummary).                                      *)
(*                                                                         *)
(* TypeScript's `number` is an IEEE-754 binary float.  It is modelled at   *)
(* reduced width: Precision significand bits, round-to-nearest-even,       *)
(* gradual underflow below 2^MinExp, overflow to Infinity at 2^MaxExp, and *)
(* NaN.  Every arithmetic step of the code is one rounded operation here.  *)
(***************************************************************************)
EXTENDS Integers, Sequences, FiniteSets, TLC

\* Width of the modelled float: bits of significand.
Precision == 12
\* Finite values are below 2^MaxExp in magnitude.
MaxExp == 32
\* The least significant bit of a finite value weighs at least 2^(-MinExpMag).
MinExpMag == 20

MinExp == 0 - MinExpMag

----------------------------------------------------------------------------
(* Integer helpers *)

RECURSIVE Pow2(_)
Pow2(n) == IF n <= 0 THEN 1 ELSE 2 * Pow2(n - 1)

RECURSIVE Pow10(_)
Pow10(n) == IF n <= 0 THEN 1 ELSE 10 * Pow10(n - 1)

RECURSIVE BitLen(_)
BitLen(n) == IF n <= 0 THEN 0 ELSE 1 + BitLen(n \div 2)

Max2(a, b) == IF a >= b THEN a ELSE b

Abs(n) == IF n < 0 THEN 0 - n ELSE n

----------------------------------------------------------------------------
(* number: the float values *)

NaN == [k |-> "nan", s |-> 1, m |-> 0, e |-> 0]
Inf(sg) == [k |-> "inf", s |-> sg, m |-> 0, e |-> 0]
Zero == [k |-> "fin", s |-> 1, m |-> 0, e |-> 0]
Fin(sg, mm, ee) == [k |-> "fin", s |-> sg, m |-> mm, e |-> ee]

IsNaN(x) == x.k = "nan"
IsInf(x) == x.k = "inf"
IsFin(x) == x.k = "fin"
IsZero(x) == x.k = "fin" /\ x.m = 0

\* The float nearest to sg * M * 2^E (M >= 0), ties to even; the canonical
\* form has a Precision-bit significand unless the exponent is MinExp.
Round(sg, M, E) ==
  IF M = 0 THEN Zero
  ELSE
    LET L == BitLen(M)
        te == Max2(E + L - Precision, MinExp)
        sh == te - E
    IN IF sh <= 0
       THEN IF te + Precision > MaxExp /\ L - sh >= Precision
            THEN Inf(sg)
            ELSE Fin(sg, M * Pow2(0 - sh), te)
       ELSE IF sh > L THEN Zero
       ELSE
         LET q == M \div Pow2(sh)
             rem == M % Pow2(sh)
             half == Pow2(sh - 1)
             up == rem > half \/ (rem = half /\ q % 2 = 1)
             q1 == IF up THEN q + 1 ELSE q
             carry == q1 = Pow2(Precision)
             m2 == IF carry THEN Pow2(Precision - 1) ELSE q1
             e2 == IF carry THEN te + 1 ELSE te
         IN IF m2 = 0 THEN Zero
            ELSE IF e2 + Precision > MaxExp /\ m2 >= Pow2(Precision - 1)
                 THEN Inf(sg)
                 ELSE Fin(sg, m2, e2)

\* The float nearest to sg * N / D for integers N >= 0, D > 0, scaled by 2^E.
DivRound(sg, N, D, E) ==
  IF N = 0 THEN Zero
  ELSE
    LET kk == Max2(0, Precision + 2 + BitLen(D) - BitLen(N))
        num == N * Pow2(kk)
        q == num \div D
        sticky == IF num % D = 0 THEN 0 ELSE 1
    IN Round(sg, 2 * q + sticky, E - kk - 1)

Neg(x) == IF IsNaN(x) \/ IsZero(x) THEN x ELSE [x EXCEPT !.s = 0 - x.s]

\* a * b
Mul(a, b) ==
  IF IsNaN(a) \/ IsNaN(b) THEN NaN
  ELSE IF IsInf(a) \/ IsInf(b)
       THEN IF IsZero(a) \/ IsZero(b) THEN NaN ELSE Inf(a.s * b.s)
  ELSE Round(a.s * b.s, a.m * b.m, a.e + b.e)

\* a / b
Div(a, b) ==
  IF IsNaN(a) \/ IsNaN(b) THEN NaN
  ELSE IF IsInf(a) THEN (IF IsInf(b) THEN NaN ELSE Inf(a.s * b.s))
  ELSE IF IsInf(b) THEN Zero
  ELSE IF IsZero(b) THEN (IF IsZero(a) THEN NaN ELSE Inf(a.s * b.s))
  ELSE DivRound(a.s * b.s, a.m, b.m, a.e - b.e)

\* a + b
Add(a, b) ==
  IF IsNaN(a) \/ IsNaN(b) THEN NaN
  ELSE IF IsInf(a) THEN (IF IsInf(b) /\ b.s # a.s THEN NaN ELSE a)
  ELSE IF IsInf(b) THEN b
  ELSE IF IsZero(a) THEN b
  ELSE IF IsZero(b) THEN a
  ELSE
    LET hi == IF a.e >= b.e THEN a ELSE b
        lo == IF a.e >= b.e THEN b ELSE a
        d == hi.e - lo.e
    IN IF d >= Precision + 2 THEN hi
       ELSE LET M == hi.s * hi.m * Pow2(d) + lo.s * lo.m
            IN Round(IF M < 0 THEN 0 - 1 ELSE 1, Abs(M), lo.e)

\* a - b
Sub(a, b) == Add(a, Neg(b))

\* a < b (false when either is NaN)
Lt(a, b) ==
  IF IsNaN(a) \/ IsNaN(b) THEN FALSE
  ELSE LET d == Sub(a, b)
       IN IF IsNaN(d) THEN FALSE
          ELSE IF IsInf(d) THEN d.s < 0
          ELSE d.m # 0 /\ d.s < 0

\* a <= b (false when either is NaN)
Le(a, b) == ~IsNaN(a) /\ ~IsNaN(b) /\ ~Lt(b, a)

----------------------------------------------------------------------------
(* Texts of the input fields, as sequences of characters *)

Digits == <<"0", "1", "2", "3", "4", "5", "6", "7", "8", "9">>

IsDigit(c) == \E i \in 1..10 : Digits[i] = c

DigitVal(c) == (CHOOSE i \in 1..10 : Digits[i] = c) - 1

\* Length of the longest run of digits of str that starts at position i.
RECURSIVE DigitRun(_, _)
DigitRun(str, i) ==
  IF i <= Len(str) /\ IsDigit(str[i]) THEN 1 + DigitRun(str, i + 1) ELSE 0

\* Value of the decimal digits str[i .. i+n-1], after the digits worth acc.
RECURSIVE DigitsValue(_, _, _, _)
DigitsValue(str, i, n, acc) ==
  IF n = 0 THEN acc
  ELSE DigitsValue(str, i + 1, n - 1, 10 * acc + DigitVal(str[i]))

HasSign(str) == Len(str) >= 1 /\ str[1] \in {"-", "+"}

SignOf(str) == IF Len(str) >= 1 /\ str[1] = "-" THEN 0 - 1 ELSE 1

\* parseFloat: the longest prefix that is a decimal literal (sign, digits,
\* an optional point and digits), correctly rounded; NaN when there is none.
parseFloat(str) ==
  LET start == IF HasSign(str) THEN 2 ELSE 1
      ni == DigitRun(str, start)
      dot == start + ni <= Len(str) /\ str[start + ni] = "."
      nf == IF dot THEN DigitRun(str, start + ni + 1) ELSE 0
      whole == DigitsValue(str, start, ni, 0)
      all == DigitsValue(str, start + ni + 1, nf, whole)
  IN IF ni + nf = 0 THEN NaN
     ELSE DivRound(SignOf(str), all, Pow10(nf), 0)

\* parseInt: the longest prefix that is a signed run of digits, as an
\* integer; NaN when there is none.  What follows the digits is dropped.
parseInt(str) ==
  LET start == IF HasSign(str) THEN 2 ELSE 1
      ni == DigitRun(str, start)
  IN IF ni = 0 THEN [nan |-> TRUE, n |-> 0]
     ELSE [nan |-> FALSE, n |-> SignOf(str) * DigitsValue(str, start, ni, 0)]

\* An integer as a number.
FromInt(n) == Round(IF n < 0 THEN 0 - 1 ELSE 1, Abs(n), 0)

One == FromInt(1)

\* !x for a number: NaN and 0 are falsy.
Falsy(x) == IsNaN(x) \/ IsZero(x)

\* Math.max(0, x)
MathMax0(x) == IF IsNaN(x) THEN NaN ELSE IF Lt(Zero, x) THEN x ELSE Zero

\* Math.pow(x, n) for an integer n >= 1.  ECMA-262 leaves the result
\* implementation-approximated; here it is binary powering, every product
\* rounded.
RECURSIVE MathPow(_, _)
MathPow(x, n) ==
  IF n <= 1 THEN x
  ELSE IF n % 2 = 0
       THEN LET h == MathPow(x, n \div 2) IN Mul(h, h)
       ELSE Mul(MathPow(x, n - 1), x)

----------------------------------------------------------------------------
(* calculateLoan *)

Null == [null |-> TRUE]

IsNull(v) == "null" \in DOMAIN v

Empty == [schedule |-> << >>, summary |-> Null]

\* Rejected without its tests of the term.
RejectedIgnoringTerm(principal, annualRate, months) ==
  \/ Falsy(principal)
  \/ Falsy(annualRate)
  \/ Le(principal, Zero)
  \/ Lt(annualRate, Zero)

\* The guard of calculateLoan's early return.
Rejected(principal, annualRate, months) ==
  \/ Falsy(principal)
  \/ Falsy(annualRate)
  \/ months.nan \/ months.n = 0
  \/ Le(principal, Zero)
  \/ Lt(annualRate, Zero)
  \/ months.n <= 0

\* MonthlyRate taking the percentage for a fraction.
MonthlyRateNotPercent(annualRate) == Div(annualRate, FromInt(12))

MonthlyRate(annualRate) == Div(Div(annualRate, FromInt(100)), FromInt(12))

MonthlyPayment(principal, monthlyRate, months) ==
  IF monthlyRate = Zero
  THEN Div(principal, FromInt(months))
  ELSE LET growth == MathPow(Add(One, monthlyRate), months)
       IN Div(Mul(Mul(principal, monthlyRate), growth), Sub(growth, One))

\* Period with the whole payment booked as principal.
PeriodAllPrincipal(loop, i, monthlyRate, monthlyPayment) ==
  LET interestAmount == Mul(loop.remainingBalance, monthlyRate)
      principalAmount == monthlyPayment
      balance == MathMax0(Sub(loop.remainingBalance, principalAmount))
  IN [remainingBalance |-> balance,
      schedule |-> Append(loop.schedule,
                    [paymentNumber |-> i,
                     paymentAmount |-> monthlyPayment,
                     principalAmount |-> principalAmount,
                     interestAmount |-> interestAmount,
                     remainingBalance |-> balance]),
      broke |-> balance = Zero]

\* One pass of the loop body for period i: loop.remainingBalance is the
\* balance before the period, loop.schedule the records pushed so far, and
\* loop.broke tells that the break was taken.
Period(loop, i, monthlyRate, monthlyPayment) ==
  LET interestAmount == Mul(loop.remainingBalance, monthlyRate)
      principalAmount == Sub(monthlyPayment, interestAmount)
      balance == MathMax0(Sub(loop.remainingBalance, principalAmount))
  IN [remainingBalance |-> balance,
      schedule |-> Append(loop.schedule,
                    [paymentNumber |-> i,
                     paymentAmount |-> monthlyPayment,
                     principalAmount |-> principalAmount,
                     interestAmount |-> interestAmount,
                     remainingBalance |-> balance]),
      broke |-> balance = Zero]

\* The passes for i = from .. to in order, none after a break.  (The range is
\* halved instead of walked so that the evaluation stays shallow.)
RECURSIVE Periods(_, _, _, _, _)
Periods(loop, from, to, monthlyRate, monthlyPayment) ==
  IF loop.broke \/ from > to THEN loop
  ELSE IF from = to THEN Period(loop, from, monthlyRate, monthlyPayment)
  ELSE LET mid == (from + to) \div 2
           first == Periods(loop, from, mid, monthlyRate, monthlyPayment)
       IN IF first.broke THEN first
          ELSE Periods(first, mid + 1, to, monthlyRate, monthlyPayment)

\* for (let i = 1; i <= months; i++) { ... } starting from the principal.
Amortize(months, principal, monthlyRate, monthlyPayment) ==
  Periods([remainingBalance |-> principal, schedule |-> << >>, broke |-> FALSE],
          1, months, monthlyRate, monthlyPayment).schedule

\* Summary with the interest taken from one payment instead of all of them.
SummaryInterestOfOnePayment(principal, monthlyPayment, months) ==
  LET totalPayments == Mul(monthlyPayment, FromInt(months))
      totalInterest == Sub(monthlyPayment, principal)
  IN [monthlyPayment |-> monthlyPayment,
      totalPayments |-> totalPayments,
      totalInterest |-> totalInterest,
      totalAmount |-> totalPayments]

Summary(principal, monthlyPayment, months) ==
  LET totalPayments == Mul(monthlyPayment, FromInt(months))
      totalInterest == Sub(totalPayments, principal)
  IN [monthlyPayment |-> monthlyPayment,
      totalPayments |-> totalPayments,
      totalInterest |-> totalInterest,
      totalAmount |-> totalPayments]

\* What calculateLoan stores for the three texts it reads.
calculateLoan(amountText, rateText, termText) ==
  LET principal == parseFloat(amountText)
      annualRate == parseFloat(rateText)
      months == parseInt(termText)
  IN IF Rejected(principal, annualRate, months) THEN Empty
     ELSE
       LET monthlyRate == MonthlyRate(annualRate)
           monthlyPayment == MonthlyPayment(principal, monthlyRate, months.n)
       IN [schedule |-> Amortize(months.n, principal, monthlyRate,
                                  monthlyPayment),
           summary |-> Summary(principal, monthlyPayment, months.n)]

----------------------------------------------------------------------------
(* The component *)

VARIABLES loanAmount, interestRate, loanTermMonths,
          paymentSchedule, loanSummary, effectPending

vars == <<loanAmount, interestRate, loanTermMonths,
          paymentSchedule, loanSummary, effectPending>>

\* Texts the user may leave in each field.
AmountTexts ==
  { <<"2", "5", "0", "0", "0", "0">>, <<"1", "0", "0", "0">>, <<"0">>,
    << >>, <<"-", "5">> }

RateTexts ==
  { <<"4", ".", "5">>, <<"1", "2">>, <<"0">>, <<"-", "1">>,
    <<"1", "2", "0", "0">>, <<"0", ".", "0", "5">>,
    <<"0", ".", "0", "0", "0", "1">>, << >> }

TermTexts ==
  { <<"3", "6", "0">>, <<"1", "2">>, <<"1", "2", ".", "5">>, <<"3">>,
    <<"1">>, <<"0">>, << >> }

\* The dependency list without the term.
EffectDepsWithoutTerm(amountText, rateText, termText) == <<amountText, rateText>>

\* The dependency list of the effect.
EffectDeps(amountText, rateText, termText) == <<amountText, rateText, termText>>

Deps == EffectDeps(loanAmount, interestRate, loanTermMonths)

Init ==
  /\ loanAmount = <<"2", "5", "0", "0", "0", "0">>
  /\ interestRate = <<"4", ".", "5">>
  /\ loanTermMonths = <<"3", "6", "0">>
  /\ paymentSchedule = << >>
  /\ loanSummary = Null
  /\ effectPending = TRUE

\* onChange of the amount field
SetLoanAmount(v) ==
  /\ ~effectPending
  /\ v # loanAmount
  /\ loanAmount' = v
  /\ UNCHANGED <<interestRate, loanTermMonths, paymentSchedule, loanSummary>>
  /\ effectPending' = (Deps' # Deps)

\* onChange of the rate field
SetInterestRate(v) ==
  /\ ~effectPending
  /\ v # interestRate
  /\ interestRate' = v
  /\ UNCHANGED <<loanAmount, loanTermMonths, paymentSchedule, loanSummary>>
  /\ effectPending' = (Deps' # Deps)

\* onChange of the term field
SetLoanTermMonths(v) ==
  /\ ~effectPending
  /\ v # loanTermMonths
  /\ loanTermMonths' = v
  /\ UNCHANGED <<loanAmount, interestRate, paymentSchedule, loanSummary>>
  /\ effectPending' = (Deps' # Deps)

\* The effect: calculateLoan on the texts of the committed render.
RunEffect ==
  /\ effectPending
  /\ LET out == calculateLoan(loanAmount, interestRate, loanTermMonths)
     IN /\ paymentSchedule' = out.schedule
        /\ loanSummary' = out.summary
  /\ effectPending' = FALSE
  /\ UNCHANGED <<loanAmount, interestRate, loanTermMonths>>

Next ==
  \/ \E v \in AmountTexts : SetLoanAmount(v)
  \/ \E v \in RateTexts : SetInterestRate(v)
  \/ \E v \in TermTexts : SetLoanTermMonths(v)
  \/ RunEffect

Spec == Init /\ [][Next]_vars

----------------------------------------------------------------------------
(* Vocabulary of the properties *)

\* The numbers the three fields hold.
principalIn == parseFloat(loanAmount)
annualRateIn == parseFloat(interestRate)
termIn == parseFloat(loanTermMonths)
monthsIn == parseInt(loanTermMonths).n

AbsF(x) == IF IsNaN(x) THEN x ELSE [x EXCEPT !.s = 1]

MaxF(x, y) == IF Lt(x, y) THEN y ELSE x

IsInteger(x) == IsFin(x) /\ (x.e >= 0 \/ x.m % Pow2(0 - x.e) = 0)

\* A valid input in the sense of the data model: a positive finite principal,
\* a finite rate >= 0 and a term that is a positive integer.
ValidInput ==
  /\ IsFin(principalIn) /\ Lt(Zero, principalIn)
  /\ IsFin(annualRateIn) /\ Le(Zero, annualRateIn)
  /\ IsFin(termIn) /\ Lt(Zero, termIn) /\ IsInteger(termIn)

\* The recomputation triggered by the latest change has run.
Computed == ~effectPending

IsEmptyResult == paymentSchedule = << >> /\ IsNull(loanSummary)

AllFinite(rec) ==
  /\ IsFin(rec.paymentAmount) /\ IsFin(rec.principalAmount)
  /\ IsFin(rec.interestAmount) /\ IsFin(rec.remainingBalance)

\* |x - y| is at most 2^-(Precision - 2) of scale: four units of rounding.
WithinRounding(x, y, scale) ==
  Le(Mul(AbsF(Sub(x, y)), FromInt(Pow2(Precision - 2))), scale)

\* The balance period i starts from.
BalanceBefore(i) ==
  IF i = 1 THEN principalIn ELSE paymentSchedule[i - 1].remainingBalance

LastRecord == paymentSchedule[Len(paymentSchedule)]

InitialTexts ==
  /\ loanAmount = <<"2", "5", "0", "0", "0", "0">>
  /\ interestRate = <<"4", ".", "5">>
  /\ loanTermMonths = <<"3", "6", "0">>

----------------------------------------------------------------------------
(* The properties *)

\* C1: whenever the principal is not a positive finite number, the rate is
\* not a finite number >= 0 or the term is not a positive integer (a term of
\* 12.5 included), the recomputation leaves no summary and no records.
C1_InvalidYieldsEmpty == (Computed /\ ~ValidInput) => IsEmptyResult

\* C2: with a rate of 0 and an otherwise valid input the result is not Empty,
\* monthlyPayment is principal / termMonths, and every record pays that amount
\* with no interest.
C2_ZeroRate ==
  (Computed /\ ValidInput /\ IsZero(annualRateIn)) =>
    /\ ~IsNull(loanSummary)
    /\ loanSummary.monthlyPayment = Div(principalIn, FromInt(monthsIn))
    /\ paymentSchedule # << >>
    /\ \A i \in 1..Len(paymentSchedule) :
         /\ paymentSchedule[i].paymentAmount = Div(principalIn, FromInt(monthsIn))
         /\ paymentSchedule[i].interestAmount = Zero

C4_BalanceRetired ==
  (Computed /\ ValidInput) =>
    /\ \A i \in 1..Len(paymentSchedule) :
         /\ Le(Zero, paymentSchedule[i].remainingBalance)
         /\ Le(paymentSchedule[i].remainingBalance, BalanceBefore(i))
    /\ paymentSchedule # << >> => LastRecord.remainingBalance = Zero

\* C5: for a valid input the schedule has k records, 1 <= k <= termMonths,
\* numbered 1..k in order; only the last record can have a balance of 0, and
\* k < termMonths only when the last record's balance is 0.
C5_ScheduleShape ==
  (Computed /\ ValidInput) =>
    LET k == Len(paymentSchedule)
    IN /\ 1 <= k /\ k <= monthsIn
       /\ \A i \in 1..k : paymentSchedule[i].paymentNumber = i
       /\ \A i \in 1..k : paymentSchedule[i].remainingBalance = Zero => i = k
       /\ k < monthsIn => LastRecord.remainingBalance = Zero

RECURSIVE PrincipalPaid(_, _, _)
PrincipalPaid(acc, from, to) ==
  IF from > to THEN acc
  ELSE IF from = to THEN Add(acc, paymentSchedule[from].principalAmount)
  ELSE LET mid == (from + to) \div 2
           first == PrincipalPaid(acc, from, mid)
       IN IF IsNaN(first) THEN first ELSE PrincipalPaid(first, mid + 1, to)

\* C7: when the schedule of a valid input ends on a balance of 0, the
\* principalAmount of its records adds up to the principal, within a
\* relative tolerance of 2^-(Precision \div 2).
C7_PrincipalRepaid ==
  (Computed /\ ValidInput /\ paymentSchedule # << >>
     /\ LastRecord.remainingBalance = Zero) =>
    LET paid == PrincipalPaid(Zero, 1, Len(paymentSchedule))
    IN /\ IsFin(paid)
       /\ Le(Mul(AbsF(Sub(paid, principalIn)), FromInt(Pow2(Precision \div 2))),
             principalIn)

\* C8: once the recomputation triggered by the latest change has run, the
\* stored summary and schedule are what calculateLoan yields for the texts
\* the fields hold now, whatever the fields and outputs were before.
C8_OutputsFollowInputs ==
  Computed =>
    [schedule |-> paymentSchedule, summary |-> loanSummary]
      = calculateLoan(loanAmount, interestRate, loanTermMonths)

\* C8 witness: all three fields were changed, the recomputation has run and
\* stored a summary.
C8_Witness ==
  /\ Computed
  /\ loanAmount # <<"2", "5", "0", "0", "0", "0">>
  /\ interestRate # <<"4", ".", "5">>
  /\ loanTermMonths # <<"3", "6", "0">>
  /\ ~IsNull(loanSummary)

\* The triples of texts the stored outputs can stem from: the fields as they
\* are, or as they were before the one change the effect has not yet seen.
HeldTexts ==
  IF ~effectPending
  THEN {<<loanAmount, interestRate, loanTermMonths>>}
  ELSE {<<a, interestRate, loanTermMonths>> : a \in AmountTexts}
       \cup {<<loanAmount, r, loanTermMonths>> : r \in RateTexts}
       \cup {<<loanAmount, interestRate, t>> : t \in TermTexts}

\* C9: in every state the summary is null exactly when the schedule is
\* empty, and a summary and schedule that are present are the two results of
\* one calculation on one triple of texts.
C9_ReplacedTogether ==
  /\ IsNull(loanSummary) <=> paymentSchedule = << >>
  /\ ~IsNull(loanSummary) =>
       \E h \in HeldTexts :
          [schedule |-> paymentSchedule, summary |-> loanSummary]
            = calculateLoan(h[1], h[2], h[3])

\* C9 witness: a recomputation on rejected texts has cleared the summary and
\* the schedule that an earlier calculation had stored.
C9_Witness ==
  /\ Computed /\ ~InitialTexts
  /\ IsNull(loanSummary) /\ paymentSchedule = << >>
  /\ Rejected(principalIn, annualRateIn, parseInt(loanTermMonths))

\* C10: for a valid input every record follows the recurrence from
\* balance_0 = principal with r = annualRatePercent / 100 / 12: interest is
\* the balance before the payment times r, principal is monthlyPayment less
\* the interest, and the new balance is max(0, balance - principal).
C10_Recurrence ==
  (Computed /\ ValidInput) =>
    \A i \in 1..Len(paymentSchedule) :
      LET rec == paymentSchedule[i]
          r == Div(Div(annualRateIn, FromInt(100)), FromInt(12))
      IN /\ rec.interestAmount = Mul(BalanceBefore(i), r)
         /\ rec.principalAmount = Sub(loanSummary.monthlyPayment, rec.interestAmount)
         /\ rec.remainingBalance
              = MathMax0(Sub(BalanceBefore(i), rec.principalAmount))

\* C10 witness: a valid input was computed into several records with
\* interest, the last of them clipped to a balance of 0.
C10_Witness ==
  /\ Computed /\ ValidInput
  /\ Len(paymentSchedule) >= 2
  /\ Lt(Zero, paymentSchedule[2].interestAmount)
  /\ LastRecord.remainingBalance = Zero
  /\ Lt(Sub(BalanceBefore(Len(paymentSchedule)), LastRecord.principalAmount), Zero)

====
